---- MODULE Spec2Model ----
(***************************************************************************)
(* The dataset preparation pipeline of affordable_housing.py (the module   *)
(* level statements, lines 10-89) followed by the six Dash callbacks       *)
(* (lines 202-316).                                                        *)
(*                                                                         *)
(* A table (DataFrame) is a record [cols, idx, rows]: the column labels in *)
(* order, the row labels (pandas index) and the rows, each row a function  *)
(* from column label to cell.  A cell is a tagged record:                  *)
(*   "str"  text, v the tuple of its characters                            *)
(*   "num"  a finite number, v = <<n, d>> the fraction n/d in lowest terms *)
(*   "inf"  an infinite float, v = <<1>> or <<-1>>                         *)
(*   "nan"  the missing value NaN (an empty CSV cell, a failed coercion)   *)
(*   "date" a Timestamp at midnight, v = <<year, month, day>>              *)
(*   "nat"  the missing Timestamp NaT                                      *)
(* PROJECT NUMBER values are numbers standing for the project's rank in    *)
(* the sort order of the category values.                                  *)
(***************************************************************************)
EXTENDS Integers, Sequences, FiniteSets, TLC

VARIABLES pc, error, raw, date_stamp, lahd, project_count, lahd_projects,
          lahd_projects_no_jobs_column, figure

vars == <<pc, error, raw, date_stamp, lahd, project_count, lahd_projects,
          lahd_projects_no_jobs_column, figure>>

----------------------------------------------------------------------------
(* Bounds of the model. *)

\* rows of an input that varies project number and the filter columns
MaxRows == 3
\* distinct project numbers of such an input
MaxProject == 2
\* rows of an input that varies the cell values
MaxValueRows == 2
\* rows of an input whose schema lacks a column
MaxSchemaRows == 1
\* rows of the input of a run that goes on to serve the callbacks
MaxServeRows == 1

----------------------------------------------------------------------------
(* Cells. *)

Text(s) == [t |-> "str", v |-> s]
Frac(n, d) == [t |-> "num", v |-> <<n, d>>]
Num(n) == Frac(n, 1)
Inf(sign) == [t |-> "inf", v |-> <<sign>>]
NaN == [t |-> "nan", v |-> <<>>]
Date(y, m, d) == [t |-> "date", v |-> <<y, m, d>>]
NaT == [t |-> "nat", v |-> <<>>]

\* pandas isna: NaN and NaT are missing; a string (also the string "NaT")
\* and an infinite float are not.
isna(c) == c.t \in {"nan", "nat"}

----------------------------------------------------------------------------
(* Text. *)

ACQUISITION_ONLY == <<"A", "C", "Q", "U", "I", "S", "I", "T", "I", "O", "N", " ", "O", "N", "L", "Y">>
AT_RISK == <<"A", "T", "-", "R", "I", "S", "K">>
REHAB == <<"R", "E", "H", "A", "B">>
FAMILY == <<"F", "A", "M", "I", "L", "Y">>
IN_SERVICE == <<"I", "n", "-", "S", "e", "r", "v", "i", "c", "e">>
YES == <<"Y", "e", "s">>
MONEY_1200 == <<"1", ",", "2", "0", "0">>
MONEY_300 == <<"3", "0", "0">>
MONEY_0 == <<"0">>
TBD == <<"T", "B", "D">>
JOBS_7 == <<"7">>
DATE_OK == <<"0", "3", "/", "1", "5", "/", "2", "0", "1", "0">>
DATE_ISO == <<"2", "0", "1", "0", "-", "0", "3", "-", "1", "5">>
DATE_BAD_DAY == <<"0", "2", "/", "3", "0", "/", "2", "0", "1", "1">>
STAMP == <<"0", "7", "/", "0", "1", "/", "2", "0", "2", "4", " ", "1", "2", ":", "0", "0", ":", "0", "0", " ", "A", "M">>
NAT_STR == <<"N", "a", "T">>
FILLER == <<"x">>

DigitChars == <<"0", "1", "2", "3", "4", "5", "6", "7", "8", "9">>

Range(s) == {s[i] : i \in DOMAIN s}

IsDigit(c) == c \in Range(DigitChars)

DigitValue(c) == (CHOOSE i \in DOMAIN DigitChars : DigitChars[i] = c) - 1

IsDigits(s) == Len(s) > 0 /\ \A i \in DOMAIN s : IsDigit(s[i])

RECURSIVE Decimal(_)
Decimal(s) ==
    IF Len(s) = 0 THEN 0
    ELSE 10 * Decimal(SubSeq(s, 1, Len(s) - 1)) + DigitValue(s[Len(s)])

\* Python slice s[:n]
Slice(s, n) == SubSeq(s, 1, IF Len(s) < n THEN Len(s) ELSE n)

RECURSIVE Pad(_, _)
\* the decimal numeral of n, zero-padded to width w (strftime %Y, %m, %d)
Pad(n, w) ==
    IF w = 0 THEN <<>>
    ELSE Append(Pad(n \div 10, w - 1), DigitChars[(n % 10) + 1])

----------------------------------------------------------------------------
(* Tables. *)

NoTable == [cols |-> <<>>, idx |-> <<>>, rows |-> <<>>]

Has(tbl, names) == names \subseteq Range(tbl.cols)

\* the rows at positions `keep` (ascending), labels kept
Pick(tbl, keep) ==
    [cols |-> tbl.cols,
     idx |-> [i \in 1..Len(keep) |-> tbl.idx[keep[i]]],
     rows |-> [i \in 1..Len(keep) |-> tbl.rows[keep[i]]]]

RECURSIVE Ascending(_)
\* the members of a finite set of integers in ascending order
Ascending(S) ==
    IF S = {} THEN <<>>
    ELSE LET m == CHOOSE x \in S : \A y \in S : x <= y
         IN <<m>> \o Ascending(S \ {m})

\* df.loc[mask]: the rows at the positions S, in order
Where(tbl, S) == Pick(tbl, Ascending(S))

\* df[c] = values, for a column c the table does not have yet
AddColumn(tbl, c, values) ==
    [tbl EXCEPT !.cols = Append(tbl.cols, c),
                !.rows = [i \in DOMAIN tbl.rows |->
                              (c :> values[i]) @@ tbl.rows[i]]]

\* df.drop(names, axis='columns')
DropCols(tbl, names) ==
    LET left == SelectSeq(tbl.cols, LAMBDA c : c \notin names)
    IN [tbl EXCEPT !.cols = left,
                   !.rows = [i \in DOMAIN tbl.rows |->
                                 [c \in Range(left) |-> tbl.rows[i][c]]]]

\* df.dropna(): the rows with no missing cell
dropna(tbl) ==
    Where(tbl, {i \in DOMAIN tbl.rows :
                   \A c \in Range(tbl.cols) : ~isna(tbl.rows[i][c])})

----------------------------------------------------------------------------
(* The columns the script names, in the order the dataset publishes them.  *)
(* The script fixes the names; of the order it fixes that SITE COUNCIL     *)
(* DISTRICT is the fourth column left by the named drop (lines 78-80).     *)

ExpectedColumns ==
    <<"APN", "PROJECT NUMBER", "NAME", "DEVELOPMENT STAGE",
      "CONSTRUCTION TYPE", "SITE ADDRESS", "SITE COUNCIL DISTRICT", "SITE #",
      "SITE COMMUNITY", "SITE UNITS", "PROJECT TOTAL UNITS", "HOUSING TYPE",
      "SUPPORTIVE HOUSING", "SH UNITS PER SITE", "DATE FUNDED", "LAHD FUNDED",
      "LEVERAGE", "TAX EXEMPT CONDUIT BOND", "TDC", "IN-SERVICE DATE",
      "DEVELOPER", "MANAGEMENT COMPANY", "CONTACT PHONE", "PHOTO", "JOBS",
      "PROJECT SUMMARY URL", "CONTRACT NUMBERS", "DATE STAMP",
      "SITE LONGITUDE", "SITE LATITUDE", "GPS_COORDS ON MAP">>

numeric_columns ==
    {"LAHD FUNDED", "LEVERAGE", "TAX EXEMPT CONDUIT BOND",
     "TOTAL DEVELOPMENT COST"}

categorical_columns ==
    {"APN", "PROJECT NUMBER", "DEVELOPMENT STAGE", "CONSTRUCTION TYPE",
     "SITE NUMBER", "HOUSING TYPE", "SUPPORTIVE HOUSING", "IN-SERVICE DATE"}

dropped_columns ==
    {"APN", "NAME", "SITE ADDRESS", "SITE NUMBER", "SITE COMMUNITY",
     "SITE UNITS", "SH UNITS PER SITE", "IN-SERVICE DATE", "PHOTO",
     "PROJECT SUMMARY URL", "CONTRACT NUMBERS", "DATE STAMP",
     "SITE LONGITUDE", "SITE LATITUDE", "GPS_COORDS ON MAP", "DEVELOPER",
     "MANAGEMENT COMPANY", "CONTACT PHONE"}

\* lahd.rename(columns={'TDC': ..., 'SITE #': ...}): a label that is absent
\* is passed over (errors='ignore' is the default)
renamed(c) ==
    IF c = "TDC" THEN "TOTAL DEVELOPMENT COST"
    ELSE IF c = "SITE #" THEN "SITE NUMBER"
    ELSE c

rename(tbl) ==
    LET new == [i \in DOMAIN tbl.cols |-> renamed(tbl.cols[i])]
        old(c) == CHOOSE o \in Range(tbl.cols) : renamed(o) = c
    IN [tbl EXCEPT !.cols = new,
                   !.rows = [i \in DOMAIN tbl.rows |->
                                 [c \in Range(new) |-> tbl.rows[i][old(c)]]]]

----------------------------------------------------------------------------
(* Coercions. *)

\* .replace(',', '', regex=True): every comma of a string cell is removed;
\* a cell that is no string is left as it is
strip_commas(c) ==
    IF c.t = "str" THEN Text(SelectSeq(c.v, LAMBDA ch : ch # ",")) ELSE c

\* errors='ignore': text that is no numeral is left as it is
to_numeric_ignore(c) ==
    IF c.t = "str" /\ IsDigits(c.v) THEN Num(Decimal(c.v)) ELSE c

\* pd.to_numeric(errors='coerce'): an unsigned decimal numeral becomes its
\* number, any other text of the alphabet of the inputs becomes NaN, a
\* number or NaN stays.  (downcast keeps the value: float32 is taken only
\* when every value survives it.)
to_numeric(c) ==
    IF c.t = "str"
    THEN IF IsDigits(c.v) THEN Num(Decimal(c.v)) ELSE NaN
    ELSE c

IsLeap(y) == (y % 4 = 0 /\ y % 100 # 0) \/ y % 400 = 0

DaysIn(y, m) ==
    IF m = 2 THEN (IF IsLeap(y) THEN 29 ELSE 28)
    ELSE IF m \in {4, 6, 9, 11} THEN 30 ELSE 31

\* the positions of "/" in s
Slashes(s) == Ascending({i \in DOMAIN s : s[i] = "/"})

\* pd.to_datetime(format="%m/%d/%Y", errors='coerce'): month and day of one
\* or two digits, a year of four, a day the month has; anything else is NaT
to_datetime_mdy(c) ==
    IF c.t # "str" THEN NaT
    ELSE LET s == c.v
             sl == Slashes(s)
         IN IF Len(sl) # 2 THEN NaT
            ELSE LET mm == SubSeq(s, 1, sl[1] - 1)
                     dd == SubSeq(s, sl[1] + 1, sl[2] - 1)
                     yy == SubSeq(s, sl[2] + 1, Len(s))
                 IN IF /\ IsDigits(mm) /\ Len(mm) <= 2
                       /\ IsDigits(dd) /\ Len(dd) <= 2
                       /\ IsDigits(yy) /\ Len(yy) = 4
                       /\ Decimal(mm) \in 1..12
                       /\ Decimal(dd) \in 1..DaysIn(Decimal(yy), Decimal(mm))
                    THEN Date(Decimal(yy), Decimal(mm), Decimal(dd))
                    ELSE NaT

\* Series.astype(str) of a datetime column: the ISO date, or "NaT"
date_astype_str(c) ==
    IF c.t = "date"
    THEN Text(Pad(c.v[1], 4) \o <<"-">> \o Pad(c.v[2], 2) \o <<"-">>
              \o Pad(c.v[3], 2))
    ELSE Text(NAT_STR)

\* pd.to_datetime(format="%Y", errors='coerce'): four digits are the first
\* of January of that year; anything else is NaT
to_datetime_y(c) ==
    IF c.t = "str" /\ IsDigits(c.v) /\ Len(c.v) = 4
    THEN Date(Decimal(c.v), 1, 1)
    ELSE NaT

RECURSIVE Gcd(_, _)
Gcd(a, b) == IF b = 0 THEN a ELSE Gcd(b, a % b)

\* tdc / ptu of two float columns: NaN where either is missing, and where
\* the divisor is 0 the float quotient: inf for a positive dividend, NaN for
\* 0 / 0.  Nothing is raised.
truediv(a, b) ==
    IF a.t # "num" \/ b.t # "num" THEN NaN
    ELSE LET n == a.v[1] * b.v[2]
             d == a.v[2] * b.v[1]
         IN IF d = 0
            THEN (IF n = 0 THEN NaN ELSE Inf(IF n > 0 THEN 1 ELSE -1))
            ELSE LET g == Gcd(n, d) IN Frac(n \div g, d \div g)

----------------------------------------------------------------------------
(* Grouping, deduplication, sorting. *)

\* the project numbers the rows of a table carry, NaN left out
project_numbers(tbl) ==
    {tbl.rows[i]["PROJECT NUMBER"].v[1] :
        i \in {j \in DOMAIN tbl.rows : tbl.rows[j]["PROJECT NUMBER"].t = "num"}}

\* groupby(sort=False): the group keys in the order of first appearance
group_keys_unsorted(tbl) ==
    LET firsts == Ascending({i \in DOMAIN tbl.rows :
                    /\ tbl.rows[i]["PROJECT NUMBER"].t = "num"
                    /\ \A j \in 1..(i - 1) :
                           tbl.rows[j]["PROJECT NUMBER"]
                               # tbl.rows[i]["PROJECT NUMBER"]})
    IN [k \in DOMAIN firsts |-> tbl.rows[firsts[k]]["PROJECT NUMBER"].v[1]]

\* the group keys of groupby('PROJECT NUMBER') in the order of the result:
\* the categories, sorted; a missing key forms no group
group_keys(tbl) == Ascending(project_numbers(tbl))

\* groupby('PROJECT NUMBER')['PROJECT NUMBER'].count(): per group key, in
\* group order, the number of rows of the group
groupby_count(tbl) ==
    LET keys == group_keys(tbl)
    IN [k \in DOMAIN keys |->
           [key |-> keys[k],
            count |-> Cardinality({i \in DOMAIN tbl.rows :
                          tbl.rows[i]["PROJECT NUMBER"] = Num(keys[k])})]]

\* keep='last': a row is kept when no later row has its project number
last_of_project(tbl, i) ==
    \A j \in (i + 1)..Len(tbl.rows) :
        tbl.rows[j]["PROJECT NUMBER"] # tbl.rows[i]["PROJECT NUMBER"]

\* drop_duplicates(['PROJECT NUMBER']) keeps a row when no earlier row has
\* its project number (keep='first'); missing values count as equal
first_of_project(tbl, i) ==
    \A j \in 1..(i - 1) :
        tbl.rows[j]["PROJECT NUMBER"] # tbl.rows[i]["PROJECT NUMBER"]

drop_duplicates(tbl) ==
    Where(tbl, {i \in DOMAIN tbl.rows : first_of_project(tbl, i)})

\* the order of sort_values: ascending, missing values last
sorts_before(a, b) ==
    IF a.t = "num" /\ b.t = "num" THEN a.v[1] < b.v[1]
    ELSE a.t = "num" /\ b.t # "num"

RECURSIVE sorted_positions(_, _)
\* the positions S of tbl ordered by PROJECT NUMBER, ties in row order
sorted_positions(tbl, S) ==
    IF S = {} THEN <<>>
    ELSE LET key(i) == tbl.rows[i]["PROJECT NUMBER"]
             m == CHOOSE i \in S : \A j \in S \ {i} :
                      \/ sorts_before(key(i), key(j))
                      \/ (~sorts_before(key(j), key(i)) /\ i < j)
         IN <<m>> \o sorted_positions(tbl, S \ {m})

\* the sort left out
sort_values_skipped(tbl) == tbl

sort_values(tbl) == Pick(tbl, sorted_positions(tbl, DOMAIN tbl.rows))

----------------------------------------------------------------------------
(* The pipeline: one action per statement group of lines 10-89.  A         *)
(* statement that raises ends the process: pc = "failed", error the        *)
(* exception and its line.                                                 *)

Fail(e) ==
    /\ pc' = "failed"
    /\ error' = e

Goto(next) ==
    /\ pc' = next
    /\ error' = error

\* line 13: date_stamp = lahd['DATE STAMP'][0][:10]
StoreDateStamp ==
    /\ pc = "date_stamp"
    /\ IF ~Has(lahd, {"DATE STAMP"}) THEN
           Fail("KeyError:13") /\ UNCHANGED date_stamp
       ELSE IF Len(lahd.rows) = 0 THEN
           Fail("KeyError:13") /\ UNCHANGED date_stamp
       ELSE IF lahd.rows[1]["DATE STAMP"].t # "str" THEN
           Fail("TypeError:13") /\ UNCHANGED date_stamp
       ELSE
           /\ date_stamp' = Text(Slice(lahd.rows[1]["DATE STAMP"].v, 10))
           /\ Goto("filter")
    /\ UNCHANGED <<raw, lahd, project_count, lahd_projects,
                   lahd_projects_no_jobs_column, figure>>

\* line 18 left out
kept_row_line17(row) == row["CONSTRUCTION TYPE"] # Text(ACQUISITION_ONLY)

\* the rows line 17 and then line 18 keep
kept_row(row) ==
    /\ row["CONSTRUCTION TYPE"] # Text(ACQUISITION_ONLY)
    /\ row["HOUSING TYPE"] # Text(AT_RISK)

\* lines 15-18: the row filter
FilterRows ==
    /\ pc = "filter"
    /\ IF ~Has(lahd, {"CONSTRUCTION TYPE"}) THEN
           Fail("KeyError:17") /\ UNCHANGED lahd
       ELSE IF ~Has(lahd, {"HOUSING TYPE"}) THEN
           Fail("KeyError:18") /\ UNCHANGED lahd
       ELSE
           /\ lahd' = Where(lahd, {i \in DOMAIN lahd.rows :
                                       kept_row(lahd.rows[i])})
           /\ Goto("rename")
    /\ UNCHANGED <<raw, date_stamp, project_count, lahd_projects,
                   lahd_projects_no_jobs_column, figure>>

\* lines 20-23: the rename; it raises nothing
RenameColumns ==
    /\ pc = "rename"
    /\ lahd' = rename(lahd)
    /\ Goto("to_numeric")
    /\ UNCHANGED <<raw, date_stamp, project_count, lahd_projects,
                   lahd_projects_no_jobs_column, figure>>

\* lines 30-33 on one cell of a monetary column
coerce_money(c) == to_numeric(strip_commas(c))

\* lines 34-35 on one cell of JOBS
coerce_jobs(c) == to_numeric(c)

\* the table after lines 30-35
coerce_numeric(tbl) ==
    [tbl EXCEPT !.rows = [i \in DOMAIN tbl.rows |->
        [c \in Range(tbl.cols) |->
            IF c \in numeric_columns THEN coerce_money(tbl.rows[i][c])
            ELSE IF c = "JOBS" THEN coerce_jobs(tbl.rows[i][c])
            ELSE tbl.rows[i][c]]]]

\* lines 25-35: the numeric coercion
CoerceNumeric ==
    /\ pc = "to_numeric"
    /\ IF ~Has(lahd, numeric_columns) THEN
           Fail("KeyError:30") /\ UNCHANGED lahd
       ELSE IF ~Has(lahd, {"JOBS"}) THEN
           Fail("KeyError:34") /\ UNCHANGED lahd
       ELSE
           /\ lahd' = coerce_numeric(lahd)
           /\ Goto("category")
    /\ UNCHANGED <<raw, date_stamp, project_count, lahd_projects,
                   lahd_projects_no_jobs_column, figure>>

\* lines 37-41: astype('category') changes the type of the columns, not
\* their values
Categorize ==
    /\ pc = "category"
    /\ IF ~Has(lahd, categorical_columns) THEN Fail("KeyError:41")
       ELSE Goto("to_datetime")
    /\ UNCHANGED <<raw, date_stamp, lahd, project_count, lahd_projects,
                   lahd_projects_no_jobs_column, figure>>

\* lines 43-45: DATE FUNDED to Timestamp
ParseDateFunded ==
    /\ pc = "to_datetime"
    /\ IF ~Has(lahd, {"DATE FUNDED"}) THEN
           Fail("KeyError:44") /\ UNCHANGED lahd
       ELSE
           /\ lahd' = [lahd EXCEPT !.rows = [i \in DOMAIN lahd.rows |->
                          [lahd.rows[i] EXCEPT !["DATE FUNDED"] =
                              to_datetime_mdy(lahd.rows[i]["DATE FUNDED"])]]]
           /\ Goto("groupby")
    /\ UNCHANGED <<raw, date_stamp, project_count, lahd_projects,
                   lahd_projects_no_jobs_column, figure>>

\* lines 47-49: the number of sites per project
CountSites ==
    /\ pc = "groupby"
    /\ project_count' = groupby_count(lahd)
    /\ Goto("drop_duplicates")
    /\ UNCHANGED <<raw, date_stamp, lahd, lahd_projects,
                   lahd_projects_no_jobs_column, figure>>

\* lines 51-54: one row per project, sorted by project number
Deduplicate ==
    /\ pc = "drop_duplicates"
    /\ lahd_projects' = sort_values(drop_duplicates(lahd))
    /\ Goto("number_of_sites")
    /\ UNCHANGED <<raw, date_stamp, lahd, project_count,
                   lahd_projects_no_jobs_column, figure>>

\* line 57: the counts, as a bare array, become a column by position; an
\* array of another length than the table raises
AttachSites ==
    /\ pc = "number_of_sites"
    /\ IF Len(project_count) # Len(lahd_projects.rows) THEN
           Fail("ValueError:57") /\ UNCHANGED lahd_projects
       ELSE
           /\ lahd_projects' =
                  AddColumn(lahd_projects, "NUMBER OF SITES",
                            [i \in DOMAIN project_count |->
                                Num(project_count[i].count)])
           /\ Goto("year_funded")
    /\ UNCHANGED <<raw, date_stamp, lahd, project_count,
                   lahd_projects_no_jobs_column, figure>>

\* lines 58-64 on one row: DATE FUNDED as a string cut to ten characters,
\* YEAR FUNDED parsed from its first four
with_year_funded(row) ==
    LET d == date_astype_str(row["DATE FUNDED"]).v
    IN ("YEAR FUNDED" :> to_datetime_y(Text(Slice(d, 4))))
       @@ [row EXCEPT !["DATE FUNDED"] = Text(Slice(d, 10))]

\* lines 58-64: YEAR FUNDED and the displayed DATE FUNDED
DeriveYearFunded ==
    /\ pc = "year_funded"
    /\ lahd_projects' =
           [lahd_projects EXCEPT
               !.cols = Append(lahd_projects.cols, "YEAR FUNDED"),
               !.rows = [i \in DOMAIN lahd_projects.rows |->
                            with_year_funded(lahd_projects.rows[i])]]
    /\ Goto("cost_per_unit")
    /\ UNCHANGED <<raw, date_stamp, lahd, project_count,
                   lahd_projects_no_jobs_column, figure>>

\* line 67 on one row
cost_per_housing_unit(row) ==
    truediv(row["TOTAL DEVELOPMENT COST"], row["PROJECT TOTAL UNITS"])

\* lines 65-67: COST PER HOUSING UNIT
DeriveCostPerUnit ==
    /\ pc = "cost_per_unit"
    /\ IF ~Has(lahd_projects, {"PROJECT TOTAL UNITS"}) THEN
           Fail("KeyError:66") /\ UNCHANGED lahd_projects
       ELSE IF \E i \in DOMAIN lahd_projects.rows :
                   lahd_projects.rows[i]["PROJECT TOTAL UNITS"].t = "str" THEN
           Fail("TypeError:67") /\ UNCHANGED lahd_projects
       ELSE
           /\ lahd_projects' =
                  AddColumn(lahd_projects, "COST PER HOUSING UNIT",
                            [i \in DOMAIN lahd_projects.rows |->
                                cost_per_housing_unit(lahd_projects.rows[i])])
           /\ Goto("drop_columns")
    /\ UNCHANGED <<raw, date_stamp, lahd, project_count,
                   lahd_projects_no_jobs_column, figure>>

\* lines 69-76: the named drop; a label that is absent raises
DropColumns ==
    /\ pc = "drop_columns"
    /\ IF ~Has(lahd_projects, dropped_columns) THEN
           Fail("KeyError:70") /\ UNCHANGED lahd_projects
       ELSE
           /\ lahd_projects' = DropCols(lahd_projects, dropped_columns)
           /\ Goto("drop_position")
    /\ UNCHANGED <<raw, date_stamp, lahd, project_count,
                   lahd_projects_no_jobs_column, figure>>

\* lahd_projects.columns[3]
fourth_column(tbl) == tbl.cols[4]

\* lines 78-80: the drop of the fourth column, whatever its label
DropFourthColumn ==
    /\ pc = "drop_position"
    /\ IF Len(lahd_projects.cols) < 4 THEN
           Fail("IndexError:79") /\ UNCHANGED lahd_projects
       ELSE
           /\ lahd_projects' =
                  DropCols(lahd_projects, {fourth_column(lahd_projects)})
           /\ Goto("no_jobs")
    /\ UNCHANGED <<raw, date_stamp, lahd, project_count,
                   lahd_projects_no_jobs_column, figure>>

\* the copy taken without the drop
no_jobs_copy_whole(tbl) == tbl

\* lahd_projects.drop(['JOBS'], axis='columns')
no_jobs_copy(tbl) == DropCols(tbl, {"JOBS"})

\* lines 82-84: the copy without JOBS
MakeNoJobs ==
    /\ pc = "no_jobs"
    /\ IF ~Has(lahd_projects, {"JOBS"}) THEN
           Fail("KeyError:83") /\ UNCHANGED lahd_projects_no_jobs_column
       ELSE
           /\ lahd_projects_no_jobs_column' = no_jobs_copy(lahd_projects)
           /\ Goto("dropna")
    /\ UNCHANGED <<raw, date_stamp, lahd, project_count, lahd_projects,
                   figure>>

\* lines 86-89: the rows with a missing value leave both tables; the
\* script goes on to build the layout and serve
DropIncomplete ==
    /\ pc = "dropna"
    /\ lahd_projects' = dropna(lahd_projects)
    /\ lahd_projects_no_jobs_column' = dropna(lahd_projects_no_jobs_column)
    /\ Goto("serving")
    /\ UNCHANGED <<raw, date_stamp, lahd, project_count, figure>>

----------------------------------------------------------------------------
(* The callbacks.  A figure is what plotly express is handed: the output   *)
(* it is for, the chart, the frame, the columns of the axes, colour and    *)
(* size, the map style and the parts of the title.  A column the frame     *)
(* lacks makes plotly raise: the callback returns nothing and the output   *)
(* keeps its figure.                                                       *)

housing_categories == {"HOUSING TYPE", "CONSTRUCTION TYPE", "SUPPORTIVE HOUSING"}

funding_sources ==
    {"LAHD FUNDED", "LEVERAGE", "TAX EXEMPT CONDUIT BOND",
     "TOTAL DEVELOPMENT COST"}

project_metrics == {"PROJECT TOTAL UNITS", "JOBS", "COST PER HOUSING UNIT"}

map_metrics ==
    {"PROJECT TOTAL UNITS", "NONE", "LAHD FUNDED", "LEVERAGE",
     "TAX EXEMPT CONDUIT BOND", "TOTAL DEVELOPMENT COST"}

map_layouts ==
    {"open-street-map", "carto-voyager", "carto-darkmatter",
     "satellite-streets"}

NoFigure ==
    [output |-> "", px |-> "", data |-> NoTable, x |-> "", y |-> "",
     color |-> "", size |-> "", hover |-> {}, style |-> "", title |-> <<>>]

Figure(output, px, data, x, y, color, size, hover, style, title) ==
    [output |-> output, px |-> px, data |-> data, x |-> x, y |-> y,
     color |-> color, size |-> size, hover |-> hover, style |-> style,
     title |-> title]

\* the columns a figure reads from its frame
figure_columns(f) == ({f.x, f.y, f.color, f.size} \cup f.hover) \ {""}

\* a callback that cleans the frame it plots in place
RespondInPlace(f) ==
    /\ pc = "serving"
    /\ figure' = IF Has(f.data, figure_columns(f)) THEN f ELSE figure
    /\ lahd' = dropna(lahd)
    /\ UNCHANGED <<pc, error, raw, date_stamp, project_count,
                   lahd_projects, lahd_projects_no_jobs_column>>

\* a callback's response: tables are read, the figure is replaced
Respond(f) ==
    /\ pc = "serving"
    /\ figure' = IF Has(f.data, figure_columns(f)) THEN f ELSE figure
    /\ UNCHANGED <<pc, error, raw, date_stamp, lahd, project_count,
                   lahd_projects, lahd_projects_no_jobs_column>>

\* lines 202-215: stacked bars of TOTAL DEVELOPMENT COST by YEAR FUNDED
update_graph_plot1(column_selected) ==
    Figure("plot1_output", "bar", lahd_projects, "YEAR FUNDED",
           "TOTAL DEVELOPMENT COST", column_selected, "",
           {"TOTAL DEVELOPMENT COST", column_selected, "DATE FUNDED",
            "YEAR FUNDED", "PROJECT NUMBER"}, "",
           <<"TOTAL COST and ", column_selected, " by YEAR FUNDED">>)

\* lines 217-231: scatter of funding source against project metric
update_graph_plot2(column1_selected, column2_selected, column3_selected) ==
    Figure("plot2_output", "scatter", lahd_projects, column2_selected,
           column1_selected, column3_selected, "PROJECT TOTAL UNITS",
           {"PROJECT NUMBER"}, "",
           <<column1_selected, " versus ", column2_selected, " by ",
             column3_selected>>)

\* lines 233-248: heat map of funding source and project metric
update_graph_plot2_2(column1_selected, column2_selected) ==
    Figure("plot2_output2", "density_heatmap", lahd_projects,
           column2_selected, column1_selected, "", "",
           {column2_selected, column1_selected, "PROJECT NUMBER"}, "",
           <<column1_selected, " versus ", column2_selected>>)

\* lines 250-265: bars of the funding source by YEAR FUNDED
update_graph_plot2_3(column1_selected, column2_selected) ==
    Figure("plot2_output3", "bar", lahd_projects, "YEAR FUNDED",
           column1_selected, column2_selected, "",
           {column1_selected, column2_selected, "DATE FUNDED", "YEAR FUNDED",
            "PROJECT NUMBER"}, "",
           <<column1_selected, " and ", column2_selected, " by YEAR FUNDED">>)

\* lines 267-286: box plots, horizontal
update_graph_plot3(column1_selected, column2_selected, column3_selected) ==
    IF column3_selected = "ALL"
    THEN Figure("plot3_output", "box", lahd_projects, column1_selected,
                column2_selected, "", "", {"PROJECT NUMBER"}, "h",
                <<column1_selected, " by ", column2_selected>>)
    ELSE Figure("plot3_output", "box", lahd_projects, column1_selected,
                column2_selected, column3_selected, "", {"PROJECT NUMBER"},
                "h",
                <<column1_selected, " by ", column2_selected, " and ",
                  column3_selected>>)

\* lines 288-316: the map of the sites, drawn from the filtered raw table
update_graph_plot4(column1_selected, column2_selected, map_layout) ==
    IF column2_selected = "NONE"
    THEN Figure("plot4_output", "scatter_map", lahd, "SITE LONGITUDE",
                "SITE LATITUDE", column1_selected, "",
                {"PROJECT NUMBER", "SITE UNITS"}, map_layout,
                <<"Affordable Housing by ", column1_selected>>)
    ELSE Figure("plot4_output", "scatter_map", lahd, "SITE LONGITUDE",
                "SITE LATITUDE", column1_selected, column2_selected,
                {"PROJECT NUMBER", "SITE UNITS"}, map_layout,
                <<"Affordable Housing by ", column1_selected, " and ",
                  column2_selected>>)

Plot1 == \E c \in housing_categories : Respond(update_graph_plot1(c))

Plot2 ==
    \E c1 \in funding_sources, c2 \in project_metrics,
       c3 \in housing_categories :
        Respond(update_graph_plot2(c1, c2, c3))

Plot2Heatmap ==
    \E c1 \in funding_sources, c2 \in project_metrics :
        Respond(update_graph_plot2_2(c1, c2))

Plot2Bars ==
    \E c1 \in funding_sources, c2 \in project_metrics :
        Respond(update_graph_plot2_3(c1, c2))

Plot3 ==
    \E c1 \in project_metrics \cup funding_sources,
       c2 \in housing_categories, c3 \in {"ALL"} \cup housing_categories :
        Respond(update_graph_plot3(c1, c2, c3))

Plot4 ==
    \E c1 \in housing_categories, c2 \in map_metrics, m \in map_layouts :
        Respond(update_graph_plot4(c1, c2, m))

----------------------------------------------------------------------------
(* Inputs: what read_csv returns (line 10).  An empty CSV cell is NaN; the *)
(* columns the script coerces hold text, the others numbers or text.       *)

BaseRow(pn) ==
    [c \in Range(ExpectedColumns) |->
        CASE c = "PROJECT NUMBER" -> Num(pn)
          [] c = "DEVELOPMENT STAGE" -> Text(IN_SERVICE)
          [] c = "CONSTRUCTION TYPE" -> Text(REHAB)
          [] c = "HOUSING TYPE" -> Text(FAMILY)
          [] c = "SUPPORTIVE HOUSING" -> Text(YES)
          [] c = "PROJECT TOTAL UNITS" -> Num(4)
          [] c = "DATE FUNDED" -> Text(DATE_OK)
          [] c = "TDC" -> Text(MONEY_1200)
          [] c \in {"LAHD FUNDED", "LEVERAGE"} -> Text(MONEY_300)
          [] c = "TAX EXEMPT CONDUIT BOND" -> Text(MONEY_0)
          [] c = "JOBS" -> Text(JOBS_7)
          [] c = "DATE STAMP" -> Text(STAMP)
          [] c \in {"SITE COUNCIL DISTRICT", "SITE UNITS", "SH UNITS PER SITE",
                    "SITE LONGITUDE", "SITE LATITUDE"} -> Num(1)
          [] OTHER -> Text(FILLER)]

\* rows that vary project number and the two columns of the row filter
PoolSites ==
    {[BaseRow(pn) EXCEPT !["CONSTRUCTION TYPE"] = Text(k[1]),
                         !["HOUSING TYPE"] = Text(k[2])] :
        pn \in 1..MaxProject,
        k \in {<<REHAB, FAMILY>>, <<ACQUISITION_ONLY, FAMILY>>,
               <<REHAB, AT_RISK>>}}

\* the base row and its variants with one column (or one pair) changed
Variants(b) ==
    {b,
     [b EXCEPT !["TDC"] = Text(TBD)],
     [b EXCEPT !["LAHD FUNDED"] = Text(TBD), !["LEVERAGE"] = Text(TBD),
               !["TAX EXEMPT CONDUIT BOND"] = Text(TBD)],
     [b EXCEPT !["PROJECT TOTAL UNITS"] = Num(0)],
     [b EXCEPT !["PROJECT TOTAL UNITS"] = Num(0), !["TDC"] = Text(MONEY_0)],
     [b EXCEPT !["PROJECT TOTAL UNITS"] = NaN],
     [b EXCEPT !["JOBS"] = NaN],
     [b EXCEPT !["JOBS"] = Text(TBD)],
     [b EXCEPT !["DATE FUNDED"] = Text(DATE_ISO)],
     [b EXCEPT !["DATE FUNDED"] = Text(DATE_BAD_DAY)],
     [b EXCEPT !["DATE FUNDED"] = NaN],
     [b EXCEPT !["CONSTRUCTION TYPE"] = NaN],
     [b EXCEPT !["CONSTRUCTION TYPE"] = Text(ACQUISITION_ONLY)],
     [b EXCEPT !["HOUSING TYPE"] = Text(AT_RISK)],
     [b EXCEPT !["DATE STAMP"] = NaN]}

\* rows that vary the cell values
PoolValues ==
    Variants(BaseRow(1))
    \cup {BaseRow(2), [BaseRow(1) EXCEPT !["PROJECT NUMBER"] = NaN]}

PoolSchema == {BaseRow(1), BaseRow(2)}

PoolServe ==
    {BaseRow(1), [BaseRow(1) EXCEPT !["JOBS"] = NaN],
     [BaseRow(1) EXCEPT !["PROJECT NUMBER"] = NaN]}

SeqsUpTo(S, n) == UNION {[1..k -> S] : k \in 0..n}

Without(c) == SelectSeq(ExpectedColumns, LAMBDA x : x # c)

\* the DataFrame of a CSV with the header `schema` and the given rows; every
\* site row has its own parcel number (APN)
read_csv(schema, rowseq) ==
    [cols |-> schema,
     idx |-> [i \in DOMAIN rowseq |-> i - 1],
     rows |-> [i \in DOMAIN rowseq |->
                  [c \in Range(schema) |->
                      IF c = "APN" THEN Text(Pad(i, 2)) ELSE rowseq[i][c]]]]

Inputs ==
    {read_csv(ExpectedColumns, r) : r \in SeqsUpTo(PoolSites, MaxRows)}
    \cup {read_csv(ExpectedColumns, r) : r \in SeqsUpTo(PoolValues, MaxValueRows)}
    \cup {read_csv(Without(c), r) :
            c \in Range(ExpectedColumns), r \in SeqsUpTo(PoolSchema, MaxSchemaRows)}

ServeInputs ==
    {read_csv(s, r) :
        s \in {ExpectedColumns, Without("SITE COUNCIL DISTRICT")},
        r \in SeqsUpTo(PoolServe, MaxServeRows)}

Start(inputs) ==
    /\ raw \in inputs
    /\ lahd = raw
    /\ pc = "date_stamp"
    /\ error = ""
    /\ date_stamp = NaN
    /\ project_count = <<>>
    /\ lahd_projects = NoTable
    /\ lahd_projects_no_jobs_column = NoTable
    /\ figure = NoFigure

Init == Start(ServeInputs)

InitPipeline == Start(Inputs)

Build ==
    \/ StoreDateStamp
    \/ FilterRows
    \/ RenameColumns
    \/ CoerceNumeric
    \/ Categorize
    \/ ParseDateFunded
    \/ CountSites
    \/ Deduplicate
    \/ AttachSites
    \/ DeriveYearFunded
    \/ DeriveCostPerUnit
    \/ DropColumns
    \/ DropFourthColumn
    \/ MakeNoJobs
    \/ DropIncomplete

Next ==
    \/ Build
    \/ Plot1
    \/ Plot2
    \/ Plot2Heatmap
    \/ Plot2Bars
    \/ Plot3
    \/ Plot4

\* the script and the callbacks it serves
Spec == Init /\ [][Next]_vars

\* the script up to the point where it serves
SpecPipeline == InitPipeline /\ [][Build]_vars

----------------------------------------------------------------------------
(* Properties. *)

StepOrder ==
    <<"date_stamp", "filter", "rename", "to_numeric", "category",
      "to_datetime", "groupby", "drop_duplicates", "number_of_sites",
      "year_funded", "cost_per_unit", "drop_columns", "drop_position",
      "no_jobs", "dropna", "serving">>

Position(p) == CHOOSE i \in DOMAIN StepOrder : StepOrder[i] = p

\* the script has not failed and every statement group before p has run
Reached(p) == pc # "failed" /\ Position(pc) >= Position(p)

\* the row of the input with pandas label l
RawRow(l) == raw.rows[l + 1]

PN(row) == row["PROJECT NUMBER"]

Excluded(row) ==
    \/ row["CONSTRUCTION TYPE"] = Text(ACQUISITION_ONLY)
    \/ row["HOUSING TYPE"] = Text(AT_RISK)

SchemaComplete == Range(ExpectedColumns) \subseteq Range(raw.cols)

\* C1: from the attachment of the counts on, every row of the project table
\* that carries a project number has as NUMBER OF SITES the number of rows of
\* the filtered raw table with that project number.
C1_NumberOfSites ==
    Reached("year_funded") =>
        \A i \in DOMAIN lahd_projects.rows :
            LET r == lahd_projects.rows[i]
            IN PN(r).t = "num" =>
                   r["NUMBER OF SITES"] =
                       Num(Cardinality({j \in DOMAIN lahd.rows :
                                           PN(lahd.rows[j]) = PN(r)}))

\* C1 witness: a finished run whose filtered rows start with a project that
\* is not the smallest, and whose project table holds projects of one site
\* and of more than one.
C1_Witness ==
    /\ pc = "serving"
    /\ Len(lahd.rows) >= 3
    /\ \E j \in DOMAIN lahd.rows : PN(lahd.rows[j]).v[1] < PN(lahd.rows[1]).v[1]
    /\ \E i, k \in DOMAIN lahd_projects.rows :
           /\ lahd_projects.rows[i]["NUMBER OF SITES"] = Num(1)
           /\ lahd_projects.rows[k]["NUMBER OF SITES"] = Num(2)

\* C2 (as claimed): right after COST PER HOUSING UNIT is computed, it is the
\* quotient of TOTAL DEVELOPMENT COST and PROJECT TOTAL UNITS when both are
\* present and the units are not 0, and a missing value otherwise.
C2_CostPerUnit ==
    pc = "drop_columns" =>
        \A i \in DOMAIN lahd_projects.rows :
            LET r == lahd_projects.rows[i]
                tdc == r["TOTAL DEVELOPMENT COST"]
                ptu == r["PROJECT TOTAL UNITS"]
                cpu == r["COST PER HOUSING UNIT"]
            IN IF tdc.t = "num" /\ ptu.t = "num" /\ ptu.v[1] # 0
               THEN /\ cpu.t = "num"
                    /\ cpu.v[1] * tdc.v[2] * ptu.v[1]
                           = cpu.v[2] * tdc.v[1] * ptu.v[2]
               ELSE isna(cpu)

\* C3: once the filter has run, no row of the filtered raw table, of the
\* project table or of its variant without JOBS has CONSTRUCTION TYPE
\* "ACQUISITION ONLY" or HOUSING TYPE "AT-RISK", every row of the filtered
\* raw table is an input row matching neither, and every input row
\* matching neither is in the filtered raw table, under its label and with its
\* CONSTRUCTION TYPE and HOUSING TYPE.
C3_RowFilter ==
    Reached("rename") =>
        /\ \A tbl \in {lahd, lahd_projects, lahd_projects_no_jobs_column} :
               \A i \in DOMAIN tbl.rows :
                   /\ ~Excluded(tbl.rows[i])
                   /\ ~Excluded(RawRow(tbl.idx[i]))
        /\ \A j \in DOMAIN raw.rows :
               ~Excluded(raw.rows[j]) =>
                   \E i \in DOMAIN lahd.rows :
                       /\ lahd.idx[i] = raw.idx[j]
                       /\ \A c \in {"CONSTRUCTION TYPE", "HOUSING TYPE"} :
                              lahd.rows[i][c] = raw.rows[j][c]

\* C3 witness: a finished run whose input has a row of each excluded kind
\* and a row that is kept and reaches the project table.
C3_Witness ==
    /\ pc = "serving"
    /\ \E j \in DOMAIN raw.rows :
           raw.rows[j]["CONSTRUCTION TYPE"] = Text(ACQUISITION_ONLY)
    /\ \E j \in DOMAIN raw.rows : raw.rows[j]["HOUSING TYPE"] = Text(AT_RISK)
    /\ Len(lahd_projects.rows) > 0

\* C4: in a finished run the project table and its variant without JOBS are
\* in strictly ascending order of project number (so no number is repeated).
C4_UniqueSorted ==
    pc = "serving" =>
        \A tbl \in {lahd_projects, lahd_projects_no_jobs_column} :
            \A i, j \in DOMAIN tbl.rows :
                i < j =>
                    /\ PN(tbl.rows[i]).t = "num"
                    /\ PN(tbl.rows[j]).t = "num"
                    /\ PN(tbl.rows[i]).v[1] < PN(tbl.rows[j]).v[1]

\* C4 witness: a finished run with two projects in the final table, whose
\* filtered rows repeat a project number and do not come in ascending order.
C4_Witness ==
    /\ pc = "serving"
    /\ Len(lahd_projects.rows) >= 2
    /\ Len(lahd.rows) > Len(lahd_projects.rows)
    /\ \E i, j \in DOMAIN lahd.rows :
           i < j /\ PN(lahd.rows[j]).v[1] < PN(lahd.rows[i]).v[1]

\* C5 (as claimed): in a finished run neither terminal table has a missing
\* cell, and no row of the project table comes from a project whose funding
\* date did not parse, whose monetary field did not parse or whose cost per
\* unit is undefined (units missing or 0).
C5_NoMissing ==
    pc = "serving" =>
        /\ \A tbl \in {lahd_projects, lahd_projects_no_jobs_column} :
               \A i \in DOMAIN tbl.rows :
                   \A c \in Range(tbl.cols) : ~isna(tbl.rows[i][c])
        /\ \A i \in DOMAIN lahd_projects.rows :
               LET r == lahd_projects.rows[i]
               IN /\ r["DATE FUNDED"] # Text(NAT_STR)
                  /\ \A c \in numeric_columns : r[c].t = "num"
                  /\ Has(lahd_projects, {"PROJECT TOTAL UNITS"}) =>
                         /\ r["PROJECT TOTAL UNITS"].t = "num"
                         /\ r["PROJECT TOTAL UNITS"].v[1] # 0

\* C6 (as claimed): an input whose schema lacks an expected column never
\* gets as far as serving tables.
C6_SchemaViolationAborts == ~SchemaComplete => pc # "serving"

\* the text of a raw cell as to_numeric is to read it
Numeral(c, src) ==
    IF c = "JOBS" THEN src.v ELSE SelectSeq(src.v, LAMBDA ch : ch # ",")

C8_NoJobsRetains ==
    [][pc = "dropna" =>
          /\ Len(lahd_projects_no_jobs_column'.rows) >= Len(lahd_projects'.rows)
          /\ \A i \in DOMAIN lahd_projects'.rows :
                 \E j \in DOMAIN lahd_projects_no_jobs_column'.rows :
                     PN(lahd_projects_no_jobs_column'.rows[j])
                         = PN(lahd_projects'.rows[i])
          /\ \A i \in DOMAIN lahd_projects.rows :
                 ( /\ isna(lahd_projects.rows[i]["JOBS"])
                   /\ \A c \in Range(lahd_projects.cols) \ {"JOBS"} :
                          ~isna(lahd_projects.rows[i][c]) )
                     => /\ \E j \in DOMAIN lahd_projects_no_jobs_column'.rows :
                               lahd_projects_no_jobs_column'.idx[j]
                                   = lahd_projects.idx[i]
                        /\ \A j \in DOMAIN lahd_projects'.rows :
                               lahd_projects'.idx[j] # lahd_projects.idx[i]
    ]_vars

\* C8 witness: a finished run whose variant without JOBS holds a row that
\* the project table lacks, of a project whose JOBS is missing.
C8_Witness ==
    /\ pc = "serving"
    /\ \E j \in DOMAIN lahd_projects_no_jobs_column.rows :
           /\ \A i \in DOMAIN lahd_projects.rows :
                  lahd_projects.idx[i] # lahd_projects_no_jobs_column.idx[j]
           /\ \E k \in DOMAIN lahd.rows :
                  /\ lahd.idx[k] = lahd_projects_no_jobs_column.idx[j]
                  /\ lahd.rows[k]["JOBS"] = NaN

\* C9: between deduplication and the removal of incomplete rows, the project
\* table has exactly one row for every project number of the filtered raw
\* table, that row has the label of the first filtered row of the project,
\* and in every column the two tables share, DATE FUNDED apart, it has the
\* cells of that first row.
C9_FirstOccurrence ==
    (Reached("number_of_sites") /\ ~Reached("serving")) =>
        \A p \in {PN(lahd.rows[j]) : j \in DOMAIN lahd.rows} :
            p.t = "num" =>
                LET sites == {j \in DOMAIN lahd.rows : PN(lahd.rows[j]) = p}
                    first == CHOOSE j \in sites : \A k \in sites : j <= k
                    kept == {i \in DOMAIN lahd_projects.rows :
                                PN(lahd_projects.rows[i]) = p}
                IN /\ Cardinality(kept) = 1
                   /\ \A i \in kept :
                          /\ lahd_projects.idx[i] = lahd.idx[first]
                          /\ \A c \in (Range(lahd.cols)
                                        \cap Range(lahd_projects.cols))
                                       \ {"DATE FUNDED"} :
                                 lahd_projects.rows[i][c] = lahd.rows[first][c]

\* C9 witness: the project table, before the named drop, with the first of
\* two filtered rows of one project that differ in their parcel number.
C9_Witness ==
    /\ pc = "drop_columns"
    /\ \E j, k \in DOMAIN lahd.rows :
           /\ j < k
           /\ PN(lahd.rows[j]) = PN(lahd.rows[k])
           /\ lahd.rows[j]["APN"] # lahd.rows[k]["APN"]
           /\ \E i \in DOMAIN lahd_projects.rows :
                  lahd_projects.rows[i]["APN"] = lahd.rows[j]["APN"]

\* the callback of a figure's output applied to the control values the
\* figure shows
Recomputed(f) ==
    CASE f.output = "plot1_output" -> update_graph_plot1(f.color)
      [] f.output = "plot2_output" -> update_graph_plot2(f.y, f.x, f.color)
      [] f.output = "plot2_output2" -> update_graph_plot2_2(f.y, f.x)
      [] f.output = "plot2_output3" -> update_graph_plot2_3(f.y, f.color)
      [] f.output = "plot3_output" ->
             update_graph_plot3(f.x, f.y, IF f.color = "" THEN "ALL" ELSE f.color)
      [] f.output = "plot4_output" ->
             update_graph_plot4(f.color, IF f.size = "" THEN "NONE" ELSE f.size,
                                f.style)
      [] OTHER -> NoFigure

\* C10: while the callbacks are served, no step changes the filtered raw
\* table, the project table or its variant without JOBS, and a figure that
\* replaces the last one is what its callback returns for the control values
\* it shows and the tables as they are, whatever the last figure was.
C10_TablesReadOnly ==
    [][pc = "serving" =>
          /\ lahd' = lahd
          /\ lahd_projects' = lahd_projects
          /\ lahd_projects_no_jobs_column' = lahd_projects_no_jobs_column
          /\ figure' # figure => figure' = Recomputed(figure')
    ]_vars

\* C10 witness: a map of sites sized by a metric has been returned over a
\* filtered raw table that has a row with a missing cell.
C10_Witness ==
    /\ pc = "serving"
    /\ figure.output = "plot4_output"
    /\ figure.size # ""
    /\ \E i \in DOMAIN lahd.rows :
           \E c \in Range(lahd.cols) : isna(lahd.rows[i][c])

====
